---------------------------- MODULE Spec2Model ----------------------------
(***************************************************************************)
(* UpdateLaunchEnvironmentJob (src/src/updatelaunchenvironmentjob.cpp).    *)
(*                                                                         *)
(* A job copies a QProcessEnvironment at construction, and in a deferred   *)
(* start() sends, for every variable with a POSIX name, one call to        *)
(* KLauncher and one to plasma-session, then one call carrying the whole   *)
(* D-Bus activation environment and one carrying the systemd NAME=VALUE    *)
(* list.  Every call is handed to monitorReply, which counts it in         *)
(* pendingReplies and watches it; the watcher's callback counts it out     *)
(* again and emits finished() when the count is zero.                      *)
(*                                                                         *)
(* Strings are sequences of UTF-16 code units (QString), a                 *)
(* QProcessEnvironment is a function from names to values.                 *)
(***************************************************************************)
EXTENDS Integers, Sequences, FiniteSets, TLC

VARIABLES
    callerEnv,          \* the caller's QProcessEnvironment
    mutations,          \* how often the caller has changed callerEnv
    pc,                 \* per job: where the job's control is
    environment,        \* per job: d->environment
    keys,               \* per job: the list d->environment.keys() start() iterates
    idx,                \* per job: position of start()'s loop in keys
    dbusActivationEnv,  \* per job: start()'s local QMap
    systemdUpdates,     \* per job: start()'s local QStringList
    calls,              \* per job: the messages handed to asyncCall, in order
    watchers,           \* per job: one QDBusPendingCallWatcher per monitorReply call
    pendingReplies,     \* per job: d->pendingReplies
    finishedEmitted,    \* per job: number of emissions of finished()
    deleteLaterCalls,   \* per job: number of q->deleteLater() calls
    lastCompletion,     \* per job: what the last reply handed to the callback was
    earlyCallback       \* per job: a callback has run while start() was running

vars == <<callerEnv, mutations, pc, environment, keys, idx, dbusActivationEnv,
          systemdUpdates, calls, watchers, pendingReplies, finishedEmitted,
          deleteLaterCalls, lastCompletion, earlyCallback>>

-----------------------------------------------------------------------------
(* Bounds of the model *)

\* largest number of variables in the environment the caller starts with
MaxEntries == 3

\* largest number of changes the caller makes to its environment
MaxMutations == 1

\* longest name of the environments that try out the name check
MaxNameLen == 2

\* longest value of the environments that try out the value check
MaxValueLen == 2

\* the two job instances a caller may create
Jobs == {1, 2}

-----------------------------------------------------------------------------
(* Strings *)

\* "FOO"
FOO == <<70, 79, 79>>
\* "1BAD"
BAD1 == <<49, 66, 65, 68>>
\* "OK_NAME"
OK_NAME == <<79, 75, 95, 78, 65, 77, 69>>
\* "A%"
PCT == <<65, 37>>
\* "a\tb"
TabValue == <<97, 9, 98>>
\* "b\x07v"
BelValue == <<98, 7, 118>>

NamePool == {FOO, BAD1, OK_NAME, PCT}
ValuePool == {TabValue, BelValue}

\* the code units of the names that try out the name check:
\* % - . 1 A _ z, superscript two, e with acute
NameChars == {37, 45, 46, 49, 65, 95, 122, 178, 233}

\* the code units of the values that try out the value check: NUL, BEL, tab,
\* line feed, US, space, a, DEL, two bytes above 127, and c with acute (U+0107)
ValueChars == {0, 7, 9, 10, 31, 32, 97, 127, 128, 255, 263}

\* the strings over chars of length up to n
Strings(chars, n) == UNION {[1..k -> chars] : k \in 0..n}

\* QChar::isLetter on the code units the model uses (Unicode categories L*)
isLetter(c) ==
    \/ c \in 65..90
    \/ c \in 97..122
    \/ c \in {170, 181, 186}
    \/ c \in 192..214
    \/ c \in 216..246
    \/ c \in 248..255
    \/ c \in 945..969

\* QChar::isNumber on the code units the model uses (Unicode categories N*)
isNumber(c) ==
    \/ c \in 48..57
    \/ c \in {178, 179, 185, 188, 189, 190}
    \/ c \in 1632..1641

isLetterOrNumber(c) == isLetter(c) \/ isNumber(c)

\* '_'
Underscore == 95

\* the state of isPosixName's loop after the first n characters:
\* "rejected" once a return false was taken, else whether `first` is still set
RECURSIVE PosixScan(_, _)
PosixScan(name, n) ==
    IF n = 0 THEN "first"
    ELSE LET before == PosixScan(name, n - 1)
             c == name[n]
         IN  IF before = "rejected" THEN "rejected"
             ELSE IF before = "first" /\ ~isLetter(c) /\ c # Underscore THEN "rejected"
             ELSE IF before = "first" THEN "rest"
             ELSE IF ~isLetterOrNumber(c) /\ c # Underscore THEN "rejected"
             ELSE "rest"

isPosixName(name) == PosixScan(name, Len(name)) = "rest"

\* QString::toLatin1: a code unit above 255 becomes '?'
toLatin1(value) == [i \in 1..Len(value) |-> IF value[i] > 255 THEN 63 ELSE value[i]]

\* a byte read as a char: negative from 128 on where char is signed
AsChar(b, charSigned) == IF charSigned /\ b >= 128 THEN b - 256 ELSE b

\* mutant: the lower bound of the control characters is missing
CharRejectedBelowSpace(it) ==
    IF it = 10 \/ it = 9 THEN FALSE
    ELSE it < 32 \/ it = 127

\* one pass of isSystemdApprovedValue's loop body: TRUE when it returns false
CharRejected(it) ==
    IF it = 10 \/ it = 9 THEN FALSE
    ELSE (it > 0 /\ it < 32) \/ it = 127

isSystemdApprovedValueOn(value, charSigned) ==
    \A i \in 1..Len(value) : ~CharRejected(AsChar(toLatin1(value)[i], charSigned))

\* char is signed or unsigned by the build; the result is the same
isSystemdApprovedValue(value) == isSystemdApprovedValueOn(value, TRUE)

-----------------------------------------------------------------------------
(* QProcessEnvironment *)

EmptyEnv == [n \in {} |-> <<>>]

\* the environments with at most n variables
Envs(n) ==
    UNION {[S -> ValuePool] : S \in {T \in SUBSET NamePool : Cardinality(T) <= n}}

\* order of the keys of the environment's map: by code unit, shorter first on a tie
NameLess(a, b) ==
    \E i \in 1..(Len(a) + 1) :
        /\ \A k \in 1..(i - 1) : k <= Len(b) /\ a[k] = b[k]
        /\ \/ i = Len(a) + 1 /\ Len(b) >= i
           \/ i <= Len(a) /\ i <= Len(b) /\ a[i] < b[i]

RECURSIVE SortedNames(_)
SortedNames(S) ==
    IF S = {} THEN <<>>
    ELSE LET m == CHOOSE a \in S : \A b \in S : a = b \/ NameLess(a, b)
         IN  <<m>> \o SortedNames(S \ {m})

\* QProcessEnvironment::keys
Keys(env) == SortedNames(DOMAIN env)

\* QProcessEnvironment::value(name): the default (empty) string for a missing name
Value(env, name) == IF name \in DOMAIN env THEN env[name] ELSE <<>>

\* QMap::insert
Insert(env, name, value) ==
    [n \in DOMAIN env \cup {name} |-> IF n = name THEN value ELSE env[n]]

\* QProcessEnvironment::remove
Remove(env, name) == [n \in DOMAIN env \ {name} |-> env[n]]

-----------------------------------------------------------------------------
(* Messages *)

KLauncherMsg(name, value) ==
    [peer |-> "klauncher", name |-> name, value |-> value, env |-> EmptyEnv, list |-> <<>>]

PlasmaSessionMsg(name, value) ==
    [peer |-> "plasmaSession", name |-> name, value |-> value, env |-> EmptyEnv, list |-> <<>>]

DBusActivationMsg(env) ==
    [peer |-> "dbusActivation", name |-> <<>>, value |-> <<>>, env |-> env, list |-> <<>>]

SystemdActivationMsg(list) ==
    [peer |-> "systemd", name |-> <<>>, value |-> <<>>, env |-> EmptyEnv, list |-> list]

\* mutant: the line is put together the wrong way round
UpdateStringSwapped(name, value) == value \o <<61>> \o name

\* varName + "=" + value
UpdateString(name, value) == name \o <<61>> \o value

-----------------------------------------------------------------------------
(* The job *)

\* the positions of pc inside start()
Dispatching == {"loop", "plasma", "systemd"}

\* mutant: the job keeps a reference to the caller's environment instead of a copy
JobEnvAlias(j) == callerEnv

\* the environment start() reads
JobEnv(j) == environment[j]

\* QDBusConnection::sessionBus().asyncCall(msg)
asyncCall(j, msg) == calls' = [calls EXCEPT ![j] = Append(@, msg)]

\* mutant: the reply is watched but not counted
monitorReplyNoCount(j) ==
    /\ UNCHANGED pendingReplies
    /\ watchers' = [watchers EXCEPT ![j] = Append(@, "pending")]

\* mutant: the reply is counted twice
monitorReplyTwice(j) ==
    /\ pendingReplies' = [pendingReplies EXCEPT ![j] = @ + 2]
    /\ watchers' = [watchers EXCEPT ![j] = Append(@, "pending")]

\* monitorReply, up to the connect: count the reply and watch it
monitorReply(j) ==
    /\ pendingReplies' = [pendingReplies EXCEPT ![j] = @ + 1]
    /\ watchers' = [watchers EXCEPT ![j] = Append(@, "pending")]

\* mutant: finished() is emitted on every reply, the test of the count is missing
ReplyCallbackAlways(j, k, isError) ==
    /\ watchers' = [watchers EXCEPT ![j][k] = "done"]
    /\ lastCompletion' = [lastCompletion EXCEPT ![j] = IF isError THEN "error" ELSE "success"]
    /\ pendingReplies' = [pendingReplies EXCEPT ![j] = @ - 1]
    /\ finishedEmitted' = [finishedEmitted EXCEPT ![j] = @ + 1]
    /\ deleteLaterCalls' = [deleteLaterCalls EXCEPT ![j] = @ + 1]

\* mutant: the callback returns on an error reply before it counts it
ReplyCallbackErrorReturns(j, k, isError) ==
    /\ watchers' = [watchers EXCEPT ![j][k] = "done"]
    /\ lastCompletion' = [lastCompletion EXCEPT ![j] = IF isError THEN "error" ELSE "success"]
    /\ IF isError
       THEN UNCHANGED <<pendingReplies, finishedEmitted, deleteLaterCalls>>
       ELSE /\ pendingReplies' = [pendingReplies EXCEPT ![j] = @ - 1]
            /\ IF pendingReplies[j] - 1 = 0
               THEN /\ finishedEmitted' = [finishedEmitted EXCEPT ![j] = @ + 1]
                    /\ deleteLaterCalls' = [deleteLaterCalls EXCEPT ![j] = @ + 1]
               ELSE UNCHANGED <<finishedEmitted, deleteLaterCalls>>

\* mutant: pendingReplies is one counter shared by all jobs (a static member)
ReplyCallbackShared(j, k, isError) ==
    /\ watchers' = [watchers EXCEPT ![j][k] = "done"]
    /\ lastCompletion' = [lastCompletion EXCEPT ![j] = IF isError THEN "error" ELSE "success"]
    /\ pendingReplies' = [i \in Jobs |-> pendingReplies[i] - 1]
    /\ IF pendingReplies[j] - 1 = 0
       THEN /\ finishedEmitted' = [finishedEmitted EXCEPT ![j] = @ + 1]
            /\ deleteLaterCalls' = [deleteLaterCalls EXCEPT ![j] = @ + 1]
       ELSE UNCHANGED <<finishedEmitted, deleteLaterCalls>>

\* mutant: finished() is emitted but the job does not schedule its deletion
ReplyCallbackNoDelete(j, k, isError) ==
    /\ watchers' = [watchers EXCEPT ![j][k] = "done"]
    /\ lastCompletion' = [lastCompletion EXCEPT ![j] = IF isError THEN "error" ELSE "success"]
    /\ pendingReplies' = [pendingReplies EXCEPT ![j] = @ - 1]
    /\ UNCHANGED deleteLaterCalls
    /\ IF pendingReplies[j] - 1 = 0
       THEN finishedEmitted' = [finishedEmitted EXCEPT ![j] = @ + 1]
       ELSE UNCHANGED finishedEmitted

\* the lambda monitorReply connects to the watcher's finished signal
ReplyCallback(j, k, isError) ==
    /\ watchers' = [watchers EXCEPT ![j][k] = "done"]
    /\ lastCompletion' = [lastCompletion EXCEPT ![j] = IF isError THEN "error" ELSE "success"]
    /\ pendingReplies' = [pendingReplies EXCEPT ![j] = @ - 1]
    /\ IF pendingReplies[j] - 1 = 0
       THEN /\ finishedEmitted' = [finishedEmitted EXCEPT ![j] = @ + 1]
            /\ deleteLaterCalls' = [deleteLaterCalls EXCEPT ![j] = @ + 1]
       ELSE UNCHANGED <<finishedEmitted, deleteLaterCalls>>

\* the constructor: copy the environment, schedule start()
Construct(j) ==
    /\ pc[j] = "unborn"
    /\ environment' = [environment EXCEPT ![j] = callerEnv]
    /\ pc' = [pc EXCEPT ![j] = "created"]
    /\ UNCHANGED <<callerEnv, mutations, keys, idx, dbusActivationEnv, systemdUpdates,
                   calls, watchers, pendingReplies, finishedEmitted, deleteLaterCalls,
                   lastCompletion, earlyCallback>>

\* the timer fires: start() begins, its locals are empty, the loop takes the keys
start(j) ==
    /\ pc[j] = "created"
    /\ keys' = [keys EXCEPT ![j] = Keys(JobEnv(j))]
    /\ idx' = [idx EXCEPT ![j] = 1]
    /\ dbusActivationEnv' = [dbusActivationEnv EXCEPT ![j] = EmptyEnv]
    /\ systemdUpdates' = [systemdUpdates EXCEPT ![j] = <<>>]
    /\ pc' = [pc EXCEPT ![j] = "loop"]
    /\ UNCHANGED <<callerEnv, mutations, environment, calls, watchers, pendingReplies,
                   finishedEmitted, deleteLaterCalls, lastCompletion, earlyCallback>>

\* the loop meets a name that is no POSIX name: warn and continue
SkipEntry(j) ==
    /\ pc[j] = "loop"
    /\ idx[j] <= Len(keys[j])
    /\ ~isPosixName(keys[j][idx[j]])
    /\ idx' = [idx EXCEPT ![j] = @ + 1]
    /\ UNCHANGED <<callerEnv, mutations, pc, environment, keys, dbusActivationEnv,
                   systemdUpdates, calls, watchers, pendingReplies, finishedEmitted,
                   deleteLaterCalls, lastCompletion, earlyCallback>>

\* mutant: the name is not checked before the call to KLauncher
DispatchKLauncherUnchecked(j) ==
    /\ pc[j] = "loop"
    /\ idx[j] <= Len(keys[j])
    /\ LET varName == keys[j][idx[j]]
           value == Value(JobEnv(j), varName)
       IN  asyncCall(j, KLauncherMsg(varName, value))
    /\ monitorReply(j)
    /\ pc' = [pc EXCEPT ![j] = "plasma"]
    /\ UNCHANGED <<callerEnv, mutations, environment, keys, idx, dbusActivationEnv,
                   systemdUpdates, finishedEmitted, deleteLaterCalls, lastCompletion,
                   earlyCallback>>

\* mutant: the call to KLauncher is made but not handed to monitorReply
DispatchKLauncherUnmonitored(j) ==
    /\ pc[j] = "loop"
    /\ idx[j] <= Len(keys[j])
    /\ isPosixName(keys[j][idx[j]])
    /\ LET varName == keys[j][idx[j]]
           value == Value(JobEnv(j), varName)
       IN  asyncCall(j, KLauncherMsg(varName, value))
    /\ pc' = [pc EXCEPT ![j] = "plasma"]
    /\ UNCHANGED <<callerEnv, mutations, environment, keys, idx, dbusActivationEnv,
                   systemdUpdates, watchers, pendingReplies, finishedEmitted,
                   deleteLaterCalls, lastCompletion, earlyCallback>>

\* mutant: the first call of the loop body goes to plasma-session
DispatchKLauncherAsPlasma(j) ==
    /\ pc[j] = "loop"
    /\ idx[j] <= Len(keys[j])
    /\ isPosixName(keys[j][idx[j]])
    /\ LET varName == keys[j][idx[j]]
           value == Value(JobEnv(j), varName)
       IN  asyncCall(j, PlasmaSessionMsg(varName, value))
    /\ monitorReply(j)
    /\ pc' = [pc EXCEPT ![j] = "plasma"]
    /\ UNCHANGED <<callerEnv, mutations, environment, keys, idx, dbusActivationEnv,
                   systemdUpdates, finishedEmitted, deleteLaterCalls, lastCompletion,
                   earlyCallback>>

\* the loop body up to the first monitorReply: the call to KLauncher
DispatchKLauncher(j) ==
    /\ pc[j] = "loop"
    /\ idx[j] <= Len(keys[j])
    /\ isPosixName(keys[j][idx[j]])
    /\ LET varName == keys[j][idx[j]]
           value == Value(JobEnv(j), varName)
       IN  asyncCall(j, KLauncherMsg(varName, value))
    /\ monitorReply(j)
    /\ pc' = [pc EXCEPT ![j] = "plasma"]
    /\ UNCHANGED <<callerEnv, mutations, environment, keys, idx, dbusActivationEnv,
                   systemdUpdates, finishedEmitted, deleteLaterCalls, lastCompletion,
                   earlyCallback>>

\* mutant: the value is checked before the call to plasma-session, and a
\* rejected value skips the call
DispatchPlasmaSessionCheckFirst(j) ==
    /\ pc[j] = "plasma"
    /\ LET varName == keys[j][idx[j]]
           value == Value(JobEnv(j), varName)
       IN  IF isSystemdApprovedValue(value)
           THEN /\ asyncCall(j, PlasmaSessionMsg(varName, value))
                /\ monitorReply(j)
                /\ dbusActivationEnv' =
                       [dbusActivationEnv EXCEPT ![j] = Insert(@, varName, value)]
                /\ systemdUpdates' =
                       [systemdUpdates EXCEPT ![j] = Append(@, UpdateString(varName, value))]
           ELSE UNCHANGED <<calls, watchers, pendingReplies, dbusActivationEnv,
                            systemdUpdates>>
    /\ idx' = [idx EXCEPT ![j] = @ + 1]
    /\ pc' = [pc EXCEPT ![j] = "loop"]
    /\ UNCHANGED <<callerEnv, mutations, environment, keys, finishedEmitted,
                   deleteLaterCalls, lastCompletion, earlyCallback>>

\* mutant: a rejected value leaves the loop (break for continue)
DispatchPlasmaSessionBreak(j) ==
    /\ pc[j] = "plasma"
    /\ LET varName == keys[j][idx[j]]
           value == Value(JobEnv(j), varName)
       IN  /\ asyncCall(j, PlasmaSessionMsg(varName, value))
           /\ dbusActivationEnv' =
                  [dbusActivationEnv EXCEPT ![j] = Insert(@, varName, value)]
           /\ systemdUpdates' =
                  [systemdUpdates EXCEPT ![j] =
                      IF isSystemdApprovedValue(value)
                      THEN Append(@, UpdateString(varName, value))
                      ELSE @]
           /\ idx' = [idx EXCEPT ![j] =
                         IF isSystemdApprovedValue(value) THEN @ + 1 ELSE Len(keys[j]) + 1]
    /\ monitorReply(j)
    /\ pc' = [pc EXCEPT ![j] = "loop"]
    /\ UNCHANGED <<callerEnv, mutations, environment, keys, finishedEmitted,
                   deleteLaterCalls, lastCompletion, earlyCallback>>

\* the rest of the loop body: the call to plasma-session, the entry of the
\* activation environment, and the systemd line when the value is approved
DispatchPlasmaSession(j) ==
    /\ pc[j] = "plasma"
    /\ LET varName == keys[j][idx[j]]
           value == Value(JobEnv(j), varName)
       IN  /\ asyncCall(j, PlasmaSessionMsg(varName, value))
           /\ dbusActivationEnv' =
                  [dbusActivationEnv EXCEPT ![j] = Insert(@, varName, value)]
           /\ systemdUpdates' =
                  [systemdUpdates EXCEPT ![j] =
                      IF isSystemdApprovedValue(value)
                      THEN Append(@, UpdateString(varName, value))
                      ELSE @]
    /\ monitorReply(j)
    /\ idx' = [idx EXCEPT ![j] = @ + 1]
    /\ pc' = [pc EXCEPT ![j] = "loop"]
    /\ UNCHANGED <<callerEnv, mutations, environment, keys, finishedEmitted,
                   deleteLaterCalls, lastCompletion, earlyCallback>>

\* after the loop: the UpdateActivationEnvironment call
DispatchDBusActivation(j) ==
    /\ pc[j] = "loop"
    /\ idx[j] > Len(keys[j])
    /\ asyncCall(j, DBusActivationMsg(dbusActivationEnv[j]))
    /\ monitorReply(j)
    /\ pc' = [pc EXCEPT ![j] = "systemd"]
    /\ UNCHANGED <<callerEnv, mutations, environment, keys, idx, dbusActivationEnv,
                   systemdUpdates, finishedEmitted, deleteLaterCalls, lastCompletion,
                   earlyCallback>>

\* mutant: SetEnvironment is called only when there is a line to send
DispatchSystemdIfAny(j) ==
    /\ pc[j] = "systemd"
    /\ IF systemdUpdates[j] # <<>>
       THEN /\ asyncCall(j, SystemdActivationMsg(systemdUpdates[j]))
            /\ monitorReply(j)
       ELSE UNCHANGED <<calls, watchers, pendingReplies>>
    /\ pc' = [pc EXCEPT ![j] = "returned"]
    /\ UNCHANGED <<callerEnv, mutations, environment, keys, idx, dbusActivationEnv,
                   systemdUpdates, finishedEmitted, deleteLaterCalls, lastCompletion,
                   earlyCallback>>

\* the SetEnvironment call; start() returns
DispatchSystemd(j) ==
    /\ pc[j] = "systemd"
    /\ asyncCall(j, SystemdActivationMsg(systemdUpdates[j]))
    /\ monitorReply(j)
    /\ pc' = [pc EXCEPT ![j] = "returned"]
    /\ UNCHANGED <<callerEnv, mutations, environment, keys, idx, dbusActivationEnv,
                   systemdUpdates, finishedEmitted, deleteLaterCalls, lastCompletion,
                   earlyCallback>>

\* the event loop delivers the finished signal of watcher k, whose reply is an
\* error or not; the signal is queued, so start() is not running
WatcherFinished(j, k, isError) ==
    /\ pc[j] = "returned"
    /\ k \in 1..Len(watchers[j])
    /\ watchers[j][k] = "pending"
    /\ ReplyCallback(j, k, isError)
    /\ UNCHANGED <<callerEnv, mutations, pc, environment, keys, idx, dbusActivationEnv,
                   systemdUpdates, calls, earlyCallback>>

\* A transport that runs the callback at once, between two steps of start().
\* QDBusPendingCallWatcher queues its finished signal, so with Qt's bus this
\* step does not occur (Next leaves it out); it is the lambda as it would run
\* on a transport that only promises that every call completes, and is a step
\* of NextSync alone.
WatcherFinishedInStart(j, k, isError) ==
    /\ pc[j] \in Dispatching
    /\ k \in 1..Len(watchers[j])
    /\ watchers[j][k] = "pending"
    /\ ReplyCallback(j, k, isError)
    /\ earlyCallback' = [earlyCallback EXCEPT ![j] = TRUE]
    /\ UNCHANGED <<callerEnv, mutations, pc, environment, keys, idx, dbusActivationEnv,
                   systemdUpdates, calls>>

\* the event loop runs the deferred delete: the job and its watchers are gone
DeferredDelete(j) ==
    /\ pc[j] = "returned"
    /\ deleteLaterCalls[j] > 0
    /\ pc' = [pc EXCEPT ![j] = "deleted"]
    /\ UNCHANGED <<callerEnv, mutations, environment, keys, idx, dbusActivationEnv,
                   systemdUpdates, calls, watchers, pendingReplies, finishedEmitted,
                   deleteLaterCalls, lastCompletion, earlyCallback>>

\* the caller changes its own environment: insert, remove or clear
CallerMutates ==
    /\ mutations < MaxMutations
    /\ mutations' = mutations + 1
    /\ \/ \E n \in NamePool, v \in ValuePool :
            /\ Value(callerEnv, n) # v
            /\ callerEnv' = Insert(callerEnv, n, v)
       \/ \E n \in DOMAIN callerEnv : callerEnv' = Remove(callerEnv, n)
       \/ /\ callerEnv # EmptyEnv
          /\ callerEnv' = EmptyEnv
    /\ UNCHANGED <<pc, environment, keys, idx, dbusActivationEnv, systemdUpdates, calls,
                   watchers, pendingReplies, finishedEmitted, deleteLaterCalls,
                   lastCompletion, earlyCallback>>

-----------------------------------------------------------------------------
(* Specifications *)

\* the jobs in `created` are still to be constructed, the caller's environment
\* is one of envs
InitWith(created, envs) ==
    /\ callerEnv \in envs
    /\ mutations = 0
    /\ pc = [j \in Jobs |-> IF j \in created THEN "unborn" ELSE "none"]
    /\ environment = [j \in Jobs |-> EmptyEnv]
    /\ keys = [j \in Jobs |-> <<>>]
    /\ idx = [j \in Jobs |-> 0]
    /\ dbusActivationEnv = [j \in Jobs |-> EmptyEnv]
    /\ systemdUpdates = [j \in Jobs |-> <<>>]
    /\ calls = [j \in Jobs |-> <<>>]
    /\ watchers = [j \in Jobs |-> <<>>]
    /\ pendingReplies = [j \in Jobs |-> 0]
    /\ finishedEmitted = [j \in Jobs |-> 0]
    /\ deleteLaterCalls = [j \in Jobs |-> 0]
    /\ lastCompletion = [j \in Jobs |-> "none"]
    /\ earlyCallback = [j \in Jobs |-> FALSE]

InitJobs(created, n) == InitWith(created, Envs(n))

\* the caller creates one job
Init == InitJobs({1}, MaxEntries)

\* the caller creates two jobs, from an environment with one variable less
InitTwo == InitJobs(Jobs, MaxEntries - 1)

JobStep(j) ==
    \/ Construct(j)
    \/ start(j)
    \/ SkipEntry(j)
    \/ DispatchKLauncher(j)
    \/ DispatchPlasmaSession(j)
    \/ DispatchDBusActivation(j)
    \/ DispatchSystemd(j)
    \/ DeferredDelete(j)

Completion(j) == \E k \in 1..Len(watchers[j]), isError \in BOOLEAN : WatcherFinished(j, k, isError)

CompletionInStart(j) ==
    \E k \in 1..Len(watchers[j]), isError \in BOOLEAN : WatcherFinishedInStart(j, k, isError)

Next == \E j \in Jobs : JobStep(j) \/ Completion(j)

\* one job, callbacks from the event loop only
Spec == Init /\ [][Next]_vars

\* the same, with the timer, start() and every reply making progress
FairSpec ==
    /\ Spec
    /\ \A j \in Jobs : WF_vars(JobStep(j)) /\ WF_vars(Completion(j))

NextSync == Next \/ \E j \in Jobs : CompletionInStart(j)

\* one job on a transport whose callbacks may run inside start()
SpecSync == Init /\ [][NextSync]_vars

\* two jobs
SpecTwo == InitTwo /\ [][Next]_vars

\* one job, of an environment with one variable of any name up to MaxNameLen
InitNames ==
    InitWith({1}, {[n \in {name} |-> TabValue] : name \in Strings(NameChars, MaxNameLen)})

\* the name check, tried on every such name by a job
SpecNames == InitNames /\ [][Next]_vars

\* one job, of an environment with two variables: 1BAD, and FOO with any value
\* up to MaxValueLen
InitValues ==
    InitWith({1}, {[n \in {FOO, BAD1} |-> IF n = FOO THEN value ELSE TabValue] :
                      value \in Strings(ValueChars, MaxValueLen)})

\* the value check, tried on every such value by a job
SpecValues == InitValues /\ [][Next]_vars

\* the caller creates one job, from an environment it can still add to
InitCaller == InitJobs({1}, MaxEntries - 1)

NextCaller == Next \/ CallerMutates

\* one job, and a caller that changes its environment
SpecCaller == InitCaller /\ [][NextCaller]_vars

-----------------------------------------------------------------------------
(* What the properties speak of *)

\* start() has returned
Returned(j) == pc[j] \in {"returned", "deleted"}

\* every watcher of the job has had its callback run
AllDone(j) == \A k \in 1..Len(watchers[j]) : watchers[j][k] = "done"

\* the number of callbacks that have run
DoneCount(j) == Cardinality({k \in 1..Len(watchers[j]) : watchers[j][k] = "done"})

\* the names of an environment that pass the name check
ValidNames(env) == {n \in DOMAIN env : isPosixName(n)}

\* the number of calls of a job to one peer
CallsTo(j, peer) == Cardinality({k \in 1..Len(calls[j]) : calls[j][k].peer = peer})

\* the entries with a valid name, as the activation environment holds them
ValidEntries(env) == [n \in ValidNames(env) |-> env[n]]

\* the NAME=VALUE lines of the names ks, in order, for valid names with approved values
RECURSIVE ApprovedLines(_, _)
ApprovedLines(env, ks) ==
    IF ks = <<>> THEN <<>>
    ELSE LET n == Head(ks)
         IN  (IF isPosixName(n) /\ isSystemdApprovedValue(env[n])
              THEN <<UpdateString(n, env[n])>>
              ELSE <<>>) \o ApprovedLines(env, Tail(ks))

\* the two per-variable calls of the valid names among ks, in order
RECURSIVE LegacyCalls(_, _)
LegacyCalls(env, ks) ==
    IF ks = <<>> THEN <<>>
    ELSE LET n == Head(ks)
         IN  (IF isPosixName(n)
              THEN <<KLauncherMsg(n, env[n]), PlasmaSessionMsg(n, env[n])>>
              ELSE <<>>) \o LegacyCalls(env, Tail(ks))

\* all calls a job with this environment is to make
ExpectedCalls(env) ==
    LegacyCalls(env, Keys(env))
        \o <<DBusActivationMsg(ValidEntries(env)),
             SystemdActivationMsg(ApprovedLines(env, Keys(env)))>>

\* everything that belongs to one job
JobState(j) ==
    <<pc[j], environment[j], keys[j], idx[j], dbusActivationEnv[j], systemdUpdates[j],
      calls[j], watchers[j], pendingReplies[j], finishedEmitted[j], deleteLaterCalls[j],
      lastCompletion[j]>>

-----------------------------------------------------------------------------
(* Properties *)

\* C1: with callbacks run from the event loop only, finished() has been emitted
\* once when start() has returned and every watched reply has had its callback,
\* and not at all before: it is emitted once, by the callback of the last
\* outstanding reply, in whatever order the replies come.
C1_FinishedOnceAtLastCompletion ==
    \A j \in Jobs :
        finishedEmitted[j] = IF Returned(j) /\ AllDone(j) THEN 1 ELSE 0

\* the spec's three-variable environment, six replies, finished
C1_Witness ==
    /\ finishedEmitted[1] = 1
    /\ Len(watchers[1]) = 6
    /\ AllDone(1)

C3_EventuallyFinished ==
    \A j \in Jobs :
        (pc[j] = "created") ~>
            (/\ Returned(j)
             /\ calls[j] = ExpectedCalls(environment[j])
             /\ finishedEmitted[j] = 1)

\* the empty environment, finished
C3_Witness ==
    /\ environment[1] = EmptyEnv
    /\ Returned(1)
    /\ finishedEmitted[1] = 1

\* C4: a run of start() calls monitorReply twice per valid name and twice more,
\* whatever the values are, and finished() has been emitted after as many
\* callbacks.
C4_RegisterCount ==
    \A j \in Jobs :
        LET n == 2 * Cardinality(ValidNames(environment[j])) + 2
        IN  /\ Returned(j) => Len(watchers[j]) = n /\ Len(calls[j]) = n
            /\ finishedEmitted[j] >= 1 => DoneCount(j) = n

\* {FOO, 1BAD, OK_NAME} with a rejected value: six registrations, finished
C4_Witness ==
    /\ DOMAIN environment[1] = {FOO, BAD1, OK_NAME}
    /\ environment[1][FOO] = BelValue
    /\ Len(watchers[1]) = 6
    /\ finishedEmitted[1] = 1

\* C5: no call to KLauncher or plasma-session names a variable whose name fails
\* the check, the activation environment sent holds the valid names with their
\* values and nothing else, and no line of the systemd list is one of a
\* variable whose name fails the check.
C5_InvalidNamesExcluded ==
    \A j \in Jobs : \A k \in 1..Len(calls[j]) :
        LET m == calls[j][k]
            env == environment[j]
        IN  /\ m.peer \in {"klauncher", "plasmaSession"} => m.name \in ValidNames(env)
            /\ m.peer = "dbusActivation" => m.env = ValidEntries(env)
            /\ m.peer = "systemd" =>
                   /\ \A i \in 1..Len(m.list) :
                          \E n \in ValidNames(env) : m.list[i] = UpdateString(n, env[n])
                   /\ \A n \in DOMAIN env \ ValidNames(env) : \A i \in 1..Len(m.list) :
                          m.list[i] # UpdateString(n, env[n])

\* a valid and an invalid name, start() has returned after four calls
C5_Witness ==
    /\ DOMAIN environment[1] = {FOO, BAD1}
    /\ Returned(1)
    /\ Len(calls[1]) = 4

\* C6: when start() has returned, every valid name has its call to KLauncher
\* and to plasma-session and its entry in the activation environment, also
\* with a rejected value, and the systemd list is the lines of the valid names
\* with approved values, in the order of the keys.
C6_RejectedValueOnlyOffList ==
    \A j \in Jobs :
        Returned(j) =>
            LET env == environment[j]
                msgs == {calls[j][k] : k \in 1..Len(calls[j])}
            IN  /\ \A n \in ValidNames(env) :
                       /\ KLauncherMsg(n, env[n]) \in msgs
                       /\ PlasmaSessionMsg(n, env[n]) \in msgs
                       /\ \A m \in msgs : m.peer = "dbusActivation" =>
                              n \in DOMAIN m.env /\ m.env[n] = env[n]
                /\ \E m \in msgs : m.peer = "systemd"
                /\ \A m \in msgs : m.peer = "systemd" =>
                       m.list = ApprovedLines(env, Keys(env))

\* FOO's value is rejected, OK_NAME comes after it and is on the list
C6_Witness ==
    /\ Returned(1)
    /\ DOMAIN environment[1] = {FOO, OK_NAME}
    /\ environment[1][FOO] = BelValue
    /\ environment[1][OK_NAME] = TabValue
    /\ calls[1][6].list = <<UpdateString(OK_NAME, TabValue)>>

\* C7: every run makes the activation call once and the systemd call once; with
\* no valid name these are the only calls, with an empty map and an empty list,
\* and finished() has been emitted after two callbacks.
C7_SingletonsAlwaysSent ==
    \A j \in Jobs :
        Returned(j) =>
            /\ CallsTo(j, "dbusActivation") = 1
            /\ CallsTo(j, "systemd") = 1
            /\ ValidNames(environment[j]) = {} =>
                   /\ calls[j] = <<DBusActivationMsg(EmptyEnv), SystemdActivationMsg(<<>>)>>
                   /\ Len(watchers[j]) = 2
                   /\ finishedEmitted[j] = IF DoneCount(j) = 2 THEN 1 ELSE 0

\* only an invalid name: two calls, two callbacks, finished
C7_Witness ==
    /\ DOMAIN environment[1] = {BAD1}
    /\ Len(calls[1]) = 2
    /\ DoneCount(1) = 2
    /\ finishedEmitted[1] = 1

\* C8: a callback for an error reply takes one from pendingReplies, emits
\* finished() when that leaves zero, and sends nothing; no call is made twice.
C8_FailureCountsAsCompletion ==
    /\ [][\A j \in Jobs :
            (DoneCount(j)' = DoneCount(j) + 1 /\ lastCompletion'[j] = "error") =>
                /\ pendingReplies'[j] = pendingReplies[j] - 1
                /\ calls' = calls
                /\ finishedEmitted'[j] =
                       finishedEmitted[j] + (IF pendingReplies'[j] = 0 THEN 1 ELSE 0)]_vars
    /\ [](\A j \in Jobs : \A k1, k2 \in 1..Len(calls[j]) :
            calls[j][k1] = calls[j][k2] => k1 = k2)

\* the reply that made the job emit finished() was an error
C8_Witness ==
    /\ finishedEmitted[1] = 1
    /\ lastCompletion[1] = "error"
    /\ Len(calls[1]) = 4

\* C9: a step of one job leaves everything of the other job as it was; each of
\* two jobs makes all calls of its own snapshot, and each emits finished() once,
\* when its own replies are all in.
C9_JobsIndependent ==
    /\ [][\A j \in Jobs :
            JobState(j)' # JobState(j) =>
                \A i \in Jobs \ {j} : JobState(i)' = JobState(i)]_vars
    /\ [](\A j \in Jobs :
            /\ Returned(j) => calls[j] = ExpectedCalls(environment[j])
            /\ pendingReplies[j] = Len(watchers[j]) - DoneCount(j)
            /\ finishedEmitted[j] = IF Returned(j) /\ AllDone(j) THEN 1 ELSE 0)

\* two jobs of one snapshot, each with its four calls, the first has finished
\* while the second still waits for replies
C9_Witness ==
    /\ environment[1] = environment[2]
    /\ Len(calls[1]) = 4
    /\ calls[2] = calls[1]
    /\ finishedEmitted[1] = 1
    /\ pc[2] = "returned"
    /\ pendingReplies[2] = 3
    /\ finishedEmitted[2] = 0

\* C10: once constructed a job's environment never changes, whatever the caller
\* does to its own, and the calls are those of that environment.
C10_SnapshotNotAffectedByCaller ==
    /\ [][\A j \in Jobs :
            pc[j] \notin {"none", "unborn"} => environment'[j] = environment[j]]_vars
    /\ [](\A j \in Jobs : \A k \in 1..Len(calls[j]) :
            k <= Len(ExpectedCalls(environment[j]))
                /\ calls[j][k] = ExpectedCalls(environment[j])[k])
    /\ [](\A j \in Jobs : Returned(j) => calls[j] = ExpectedCalls(environment[j]))

\* the caller has cleared its environment before start() reached the second
\* variable; the calls so far are those of the copy, and start() goes on
C10_Witness ==
    /\ pc[1] = "plasma"
    /\ mutations = 1
    /\ callerEnv = EmptyEnv
    /\ Len(calls[1]) = 3

-----------------------------------------------------------------------------
(* The name check and the value check *)

\* a decimal digit (Unicode category Nd)
IsDigit(c) == c \in 48..57 \/ c \in 1632..1641

\* a name as C11 describes a valid one
LetterDigitUnderscoreName(name) ==
    /\ Len(name) >= 1
    /\ isLetter(name[1]) \/ name[1] = 95
    /\ \A i \in 2..Len(name) : isLetter(name[i]) \/ IsDigit(name[i]) \/ name[i] = 95

\* C11: isPosixName is true of a name exactly when the name is not empty, begins
\* with a letter or underscore and goes on with letters, digits and underscores;
\* and a job calls KLauncher for a variable exactly when its name is such a name.
C11_PosixNameIffLetterDigitUnderscore ==
    \A j \in Jobs : \A name \in DOMAIN environment[j] :
        /\ isPosixName(name) <=> LetterDigitUnderscoreName(name)
        /\ Returned(j) =>
               ((\E k \in 1..Len(calls[j]) :
                     calls[j][k].peer = "klauncher" /\ calls[j][k].name = name)
                    <=> LetterDigitUnderscoreName(name))

\* the bytes of a value in Latin-1, '?' for what Latin-1 has not
Latin1Bytes(value) == [i \in 1..Len(value) |-> IF value[i] <= 255 THEN value[i] ELSE 63]

\* some byte is a control character other than tab and line feed, or DEL
HasForbiddenByte(bytes) ==
    \E i \in 1..Len(bytes) : bytes[i] \in ((1..31) \ {9, 10}) \cup {127}

\* the value with code unit c put in after its first p code units
InsertAt(value, p, c) == SubSeq(value, 1, p) \o <<c>> \o SubSeq(value, p + 1, Len(value))

\* C12: isSystemdApprovedValue is false of a value exactly when a byte of its
\* Latin-1 encoding is in 1..31 and neither tab nor line feed, or is 127, with
\* char signed or unsigned; BEL put in anywhere makes it false; and a job puts
\* the variable's line on the systemd list exactly when no byte is such a byte.
C12_ApprovedIffNoControlByte ==
    \A j \in Jobs :
        FOO \in DOMAIN environment[j] =>
            LET value == environment[j][FOO]
                clean == ~HasForbiddenByte(Latin1Bytes(value))
            IN  /\ isSystemdApprovedValue(value) <=> clean
                /\ \A charSigned \in BOOLEAN :
                       isSystemdApprovedValueOn(value, charSigned) <=> clean
                /\ \A p \in 0..Len(value) : ~isSystemdApprovedValue(InsertAt(value, p, 7))
                /\ Returned(j) =>
                       calls[j][Len(calls[j])].list =
                           IF clean THEN <<FOO \o <<61>> \o value>> ELSE <<>>

\* a value of NUL and byte 255 is approved and its line is on the list
C12_Witness ==
    /\ Returned(1)
    /\ FOO \in DOMAIN environment[1]
    /\ environment[1][FOO] = <<0, 255>>
    /\ calls[1][Len(calls[1])].list = <<FOO \o <<61, 0, 255>>>>

-----------------------------------------------------------------------------
(* The count, the order of the calls, the life of a job *)

C14_CountIsRegisteredLessCompleted ==
    /\ [](\A j \in Jobs :
            /\ pendingReplies[j] = Len(watchers[j]) - DoneCount(j)
            /\ pendingReplies[j] >= 0
            /\ pc[j] \in {"none", "unborn", "created"} => pendingReplies[j] = 0)
    /\ [][\A j \in Jobs :
            /\ \A k \in 1..Len(watchers[j]) :
                   watchers[j][k] = "done" =>
                       k <= Len(watchers'[j]) /\ watchers'[j][k] = "done"
            /\ pendingReplies'[j] =
                   IF Len(watchers'[j]) = Len(watchers[j]) + 1 THEN pendingReplies[j] + 1
                   ELSE IF DoneCount(j)' = DoneCount(j) + 1 THEN pendingReplies[j] - 1
                   ELSE pendingReplies[j]]_vars

\* six calls counted, four callbacks run, two replies pending
C14_Witness ==
    /\ Len(watchers[1]) = 6
    /\ DoneCount(1) = 4
    /\ pendingReplies[1] = 2

\* where x is in seq
IndexIn(seq, x) == CHOOSE i \in 1..Len(seq) : seq[i] = x

\* C15: each call is handed to monitorReply as it is made; a call to KLauncher
\* is followed at once by the call to plasma-session for the same variable, the
\* variables come in the order of the keys, the activation call comes after the
\* calls of all valid names and the systemd call is the last call of start().
C15_DispatchOrder ==
    \A j \in Jobs :
        LET c == calls[j]
            n == Len(calls[j])
        IN  /\ Len(watchers[j]) = n
            /\ \A k \in 1..n :
                   /\ c[k].peer = "klauncher" =>
                          \/ k = n /\ pc[j] = "plasma"
                          \/ k < n /\ c[k + 1].peer = "plasmaSession"
                                   /\ c[k + 1].name = c[k].name
                   /\ c[k].peer = "plasmaSession" =>
                          k > 1 /\ c[k - 1].peer = "klauncher" /\ c[k - 1].name = c[k].name
                   /\ c[k].peer = "dbusActivation" =>
                          /\ \A k2 \in 1..(k - 1) :
                                 c[k2].peer \in {"klauncher", "plasmaSession"}
                          /\ \A name \in ValidNames(environment[j]) :
                                 \E k2 \in 1..(k - 1) :
                                     c[k2].peer = "plasmaSession" /\ c[k2].name = name
                   /\ c[k].peer = "systemd" =>
                          k = n /\ k > 1 /\ c[k - 1].peer = "dbusActivation" /\ Returned(j)
            /\ \A k1, k2 \in 1..n :
                   (k1 < k2 /\ c[k1].peer = "klauncher" /\ c[k2].peer = "klauncher") =>
                       IndexIn(keys[j], c[k1].name) < IndexIn(keys[j], c[k2].name)
            /\ Returned(j) => n >= 2 /\ c[n].peer = "systemd"

\* 1BAD, FOO and OK_NAME: FOO's two calls, OK_NAME's two calls, the two last
C15_Witness ==
    /\ Returned(1)
    /\ keys[1] = <<BAD1, FOO, OK_NAME>>
    /\ Len(calls[1]) = 6
    /\ calls[1][1].name = FOO
    /\ calls[1][3].name = OK_NAME

\* Created, Dispatching, AwaitingCompletions, Finished as numbers
Phase(j) ==
    IF pc[j] \in {"none", "unborn"} THEN 0
    ELSE IF pc[j] = "created" THEN 1
    ELSE IF pc[j] \in Dispatching THEN 2
    ELSE IF finishedEmitted[j] = 0 THEN 3
    ELSE 4

\* C16: a job goes from one state to the next only; a constructed job that has
\* not started has made no call and counts none; once finished() is emitted no
\* call is made, no callback runs and pendingReplies stays 0; and deleteLater()
\* is called once, in the step that emits finished().
C16_ForwardOnlyAndFinishedIsTerminal ==
    /\ [][\A j \in Jobs :
            /\ Phase(j)' \in {Phase(j), Phase(j) + 1}
            /\ finishedEmitted[j] >= 1 =>
                   /\ calls'[j] = calls[j]
                   /\ watchers'[j] = watchers[j]
                   /\ pendingReplies'[j] = 0
                   /\ finishedEmitted'[j] = finishedEmitted[j]
            /\ deleteLaterCalls'[j] - deleteLaterCalls[j] =
                   finishedEmitted'[j] - finishedEmitted[j]]_vars
    /\ [](\A j \in Jobs :
            /\ pc[j] = "created" =>
                   calls[j] = <<>> /\ watchers[j] = <<>> /\ pendingReplies[j] = 0
            /\ Phase(j) = 4 => pendingReplies[j] = 0 /\ AllDone(j)
            /\ deleteLaterCalls[j] = finishedEmitted[j]
            /\ deleteLaterCalls[j] <= 1)

\* finished() emitted, deleteLater() called once, the job deleted
C16_Witness ==
    /\ pc[1] = "deleted"
    /\ finishedEmitted[1] = 1
    /\ deleteLaterCalls[1] = 1
    /\ Len(calls[1]) = 6

\* C17: when start() has returned, every valid name has one call to KLauncher
\* and one to plasma-session, both with the value of the environment, the
\* activation map gives it that value, and the systemd list has one line for
\* it, name = value, when the value is approved, and none when it is not.
C17_FilterOnly ==
    \A j \in Jobs :
        Returned(j) =>
            \A name \in ValidNames(environment[j]) :
                LET c == calls[j]
                    value == environment[j][name]
                    list == c[Len(c)].list
                    lines == IF isSystemdApprovedValue(value) THEN 1 ELSE 0
                    To(peer) == {k \in 1..Len(c) : c[k].peer = peer /\ c[k].name = name}
                IN  /\ Cardinality(To("klauncher")) = 1
                    /\ Cardinality(To("plasmaSession")) = 1
                    /\ \A k \in To("klauncher") \cup To("plasmaSession") : c[k].value = value
                    /\ \A k \in 1..Len(c) :
                           c[k].peer = "dbusActivation" =>
                               name \in DOMAIN c[k].env /\ c[k].env[name] = value
                    /\ Cardinality({i \in 1..Len(list) :
                                       list[i] = name \o <<61>> \o value}) = lines
                    /\ Cardinality({i \in 1..Len(list) :
                                       /\ Len(list[i]) > Len(name)
                                       /\ SubSeq(list[i], 1, Len(name) + 1)
                                              = name \o <<61>>}) = lines

\* FOO and OK_NAME with approved values: two lines on the list
C17_Witness ==
    /\ Returned(1)
    /\ DOMAIN environment[1] = {FOO, OK_NAME}
    /\ calls[1][6].list = <<FOO \o <<61>> \o TabValue, OK_NAME \o <<61>> \o TabValue>>

=============================================================================
